---- MODULE Spec2Model ----
(***************************************************************************)
(* A model of js/script.js, the interaction layer of the portfolio site:   *)
(* hash navigation over the History API, the PDF modal, and the expandable *)
(* institution cards with row synchronisation.                             *)
(*                                                                         *)
(* The parts share no script state, so each has its own specification      *)
(* (NavSpec, ModalSpec, CardSpec, ...) over the same variables; a          *)
(* specification leaves the variables of the other parts alone.            *)
(***************************************************************************)
EXTENDS Integers, Sequences, FiniteSets, Bags, TLC

VARIABLES
    \* ---- the document, fixed once loaded
    elems,        \* ids for which document.getElementById finds an element
    pages,        \* the ids among elems whose element is a .page-content (allPages)
    \* ---- navigation
    active,       \* ids of the elements carrying the class 'active'
    history,      \* the session history: entries [state, url]
    histIdx,      \* the index of the current entry of the session history
    run,          \* what the user did since the load (history variable, see RunAfter)
    \* ---- the last event delivered and what it produced for the user
    lastEvent,    \* [type, arg, card]
    before,       \* the event before the last one, and whether the modal was
                  \* displayed when the last one arrived (history variable)
    alertMsg,     \* the text of the alert() the last event raised, NoAlert if none
    tabUrl,       \* the url window.open was called with by the last event, Null if none
    \* ---- PDF modal
    display,      \* documentModal.style.display
    viewerSrc,    \* pdfViewerFrame.src
    overflow,     \* document.body.style.overflow
    viewerAttached, \* whether pdfViewerFrame is still a child of the modal content
    \* ---- institution cards
    layout,       \* per card: [kind, top2, modules, icon]
    expanded,     \* the cards carrying the class 'expanded'
    contentDisplay, \* per card: style.display of its .modules-content
    iconTransform,  \* per card: style.transform of its .expand-icon i
    work,         \* the cards that are .work-card (document, fixed)
    named,        \* the cards that have a .training-name (document, fixed)
    aria,         \* per card: the aria-expanded attribute of its header
    tracked,      \* what the tracking listeners logged at the last event
    \* ---- initialisation and uncaught errors
    initEnd,      \* where the DOMContentLoaded listener ended
    listening,    \* whether the window 'error' listener is registered
    thrown,       \* whether the last event ended in an uncaught error
    logged,       \* whether the window 'error' listener logged that error
    \* ---- publication cards
    pubIsProject, \* whether the publication card is also a .project-card of
                  \* .publications-list (document, fixed)
    openCalls,    \* the number of calls of openPdfModal the last event made
    \* ---- layout changes and row information
    resized,      \* whether the window was resized since the load (history variable)
    rowInfo,      \* the rows portfolioDebug.getRowInfo returned last
    \* ---- animations
    items,        \* per card: the items it has to animate (document, fixed)
    timers,       \* the pending setTimeout callbacks, a bag
    opacity       \* per card and item: style.opacity of the item

navVars   == <<elems, pages, active, history, histIdx, run>>
eventVars == <<lastEvent, before, alertMsg, tabUrl>>
modalVars == <<display, viewerSrc, overflow, viewerAttached>>
cardVars  == <<layout, expanded, contentDisplay, iconTransform>>
headerVars == <<work, named, aria, tracked>>
errorVars  == <<initEnd, listening, thrown, logged>>
pubVars    == <<pubIsProject, openCalls>>
rowVars    == <<resized, rowInfo>>
animVars   == <<items, timers, opacity>>
vars      == <<navVars, eventVars, modalVars, cardVars, headerVars, errorVars,
               pubVars, rowVars, animVars>>

(***************************************************************************)
(* JavaScript values                                                       *)
(***************************************************************************)
\* null (a missing attribute, history.state of an entry pushed by nobody)
Null == "<null>"
\* no alert() was raised
NoAlert == "<none>"
\* !value for the strings and null the script tests
Falsy(v) == v = Null \/ v = ""
\* String.prototype.substring(1)
Substring1(s) == IF Len(s) <= 1 THEN "" ELSE SubSeq(s, 2, Len(s))

(***************************************************************************)
(* Events                                                                  *)
(***************************************************************************)
NoBefore == [event |-> [type |-> "", arg |-> "", card |-> 0], wasOpen |-> FALSE]

\* the event ev is delivered to its listeners
Deliver(ev) ==
    /\ lastEvent' = ev
    /\ before' = [event |-> lastEvent, wasOpen |-> display = "flex"]

(***************************************************************************)
(* Bounds                                                                  *)
(***************************************************************************)
\* the longest session history explored
MaxHist == 5

(***************************************************************************)
(* NAVIGATION                                                              *)
(***************************************************************************)
\* ids an element of the document may have
Ids == {"home", "training", "contact"}
\* the data-page values of the nav buttons
DataPages == {"home", "training", "contact"}
\* the urls (relative to the document) a load may start from
LoadUrls == {"", "#", "#home", "#training", "#publications", "#contact"}

validPages == {"home", "work-experience", "training", "publications"}

\* window.location.hash of a document url that is "" or '#' + fragment
LocationHash(url) == IF url = "#" THEN "" ELSE url

\* history.pushState(state, '', url): drops the entries after the current one
PushState(h, idx, st, url) == SubSeq(h, 1, idx) \o <<[state |-> st, url |-> url]>>

\* switchToPage without its first loop, which hides all pages
switchToPageKeepsOthers(nav, targetPageId) ==
    [active  |-> nav.active \cup (IF targetPageId \in elems THEN {targetPageId} ELSE {}),
     history |-> PushState(nav.history, nav.histIdx, targetPageId, "#" \o targetPageId),
     histIdx |-> nav.histIdx + 1]

\* switchToPage(targetPageId) applied to nav = [active, history, histIdx]
switchToPage(nav, targetPageId) ==
    [active  |-> (nav.active \ pages)
                   \cup (IF targetPageId \in elems THEN {targetPageId} ELSE {}),
     history |-> PushState(nav.history, nav.histIdx, targetPageId, "#" \o targetPageId),
     histIdx |-> nav.histIdx + 1]

\* handleInitialPageLoad without the validPages test
handleInitialPageLoadNoWhitelist(nav, url) ==
    LET urlHash == Substring1(LocationHash(url))
    IN  IF urlHash # "" /\ urlHash \in elems
        THEN switchToPage(nav, urlHash)
        ELSE switchToPage(nav, "home")

\* handleInitialPageLoad ignoring the hash
handleInitialPageLoadAlwaysHome(nav, url) == switchToPage(nav, "home")

\* handleInitialPageLoad() when the document was loaded at url
handleInitialPageLoad(nav, url) ==
    LET urlHash == Substring1(LocationHash(url))
    IN  IF urlHash # "" /\ urlHash \in validPages /\ urlHash \in elems
        THEN switchToPage(nav, urlHash)
        ELSE switchToPage(nav, "home")

\* a popstate listener that leaves the page as it is
popstateHandlerKeepsPage(nav, state) == nav

\* the popstate listener, for the state of the entry traversed to
popstateHandler(nav, state) ==
    IF ~Falsy(state)
    THEN switchToPage(nav, state)
    ELSE switchToPage(nav, "home")

\* a fresh browsing session on the document at url, before the script runs:
\* one history entry without state, no page marked active by the script yet
FreshSession(url) ==
    [active |-> {}, history |-> <<[state |-> Null, url |-> url]>>, histIdx |-> 1]

\* the navigation state once DOMContentLoaded has run for a load at url
Loaded(url) == handleInitialPageLoad(FreshSession(url), url)

Nav == [active |-> active, history |-> history, histIdx |-> histIdx]

SetNav(nav) ==
    /\ active' = nav.active
    /\ history' = nav.history
    /\ histIdx' = nav.histIdx

\* the url in the address bar
CurrentUrl == history[histIdx].url

(***************************************************************************)
(* run records the user's actions since the load while they have the shape *)
(* clicks* back* forward?, which is the shape the back/forward claims are  *)
(* about; any other sequence ends the record (pure = FALSE).               *)
(***************************************************************************)
NoRun == [first |-> "", clicks |-> <<>>, backs |-> 0, fwds |-> 0, pure |-> FALSE]
NewRun(first) == [first |-> first, clicks |-> <<>>, backs |-> 0, fwds |-> 0, pure |-> TRUE]

RunAfterClick(p) ==
    IF run.pure /\ run.backs = 0 /\ run.fwds = 0
    THEN [run EXCEPT !.clicks = Append(@, p)]
    ELSE NoRun

RunAfterBack ==
    IF run.pure /\ run.fwds = 0 /\ run.backs + 1 < Len(run.clicks)
    THEN [run EXCEPT !.backs = @ + 1]
    ELSE NoRun

RunAfterForward ==
    IF run.pure /\ run.fwds = 0 /\ run.backs = 1
    THEN [run EXCEPT !.fwds = 1]
    ELSE NoRun

\* the page the script last chose to show at load
FirstShown(url) ==
    LET h == Loaded(url).history IN h[Len(h)].state

\* the navigation part of a complete document loaded without a hash
NavIdle ==
    /\ elems = Ids
    /\ pages = Ids
    /\ active = Loaded("").active
    /\ history = Loaded("").history
    /\ histIdx = Loaded("").histIdx
    /\ run = NewRun(FirstShown(""))

NavInit ==
    /\ elems \in SUBSET Ids
    /\ pages \in SUBSET elems
    /\ \E url \in LoadUrls :
         /\ active = Loaded(url).active
         /\ history = Loaded(url).history
         /\ histIdx = Loaded(url).histIdx
         /\ run = NewRun(FirstShown(url))
         /\ lastEvent = [type |-> "load", arg |-> url, card |-> 0]

\* a click on the nav button whose data-page is p
NavButtonClick(p) ==
    /\ Len(history) < MaxHist
    /\ SetNav(switchToPage(Nav, p))
    /\ run' = RunAfterClick(p)
    /\ Deliver([type |-> "navClick", arg |-> p, card |-> 0])
    /\ UNCHANGED <<elems, pages, alertMsg, tabUrl, modalVars, cardVars, headerVars,
                   errorVars, pubVars, rowVars, animVars>>

\* the browser's back button: the traversal, then the popstate listener
BrowserBack ==
    /\ histIdx > 1
    /\ SetNav(popstateHandler([Nav EXCEPT !.histIdx = histIdx - 1],
                              history[histIdx - 1].state))
    /\ run' = RunAfterBack
    /\ Deliver([type |-> "back", arg |-> "", card |-> 0])
    /\ UNCHANGED <<elems, pages, alertMsg, tabUrl, modalVars, cardVars, headerVars,
                   errorVars, pubVars, rowVars, animVars>>

\* the browser's forward button: nothing happens without a forward entry
BrowserForward ==
    /\ IF histIdx < Len(history)
       THEN SetNav(popstateHandler([Nav EXCEPT !.histIdx = histIdx + 1],
                                   history[histIdx + 1].state))
       ELSE UNCHANGED <<active, history, histIdx>>
    /\ run' = RunAfterForward
    /\ Deliver([type |-> "forward", arg |-> "", card |-> 0])
    /\ UNCHANGED <<elems, pages, alertMsg, tabUrl, modalVars, cardVars, headerVars,
                   errorVars, pubVars, rowVars, animVars>>

(***************************************************************************)
(* PDF MODAL AND GITHUB LINKS                                              *)
(***************************************************************************)
PdfAlert == "PDF document not yet available for this project. Please check back later or contact me for more information."
GitHubAlert == "GitHub repository not yet available for this project. Please check back later."

\* the values getAttribute('data-pdf') has on the cards, and the paths given to
\* portfolioDebug.openPdfModal
PdfPaths == {Null, "", "a.pdf", "b.pdf"}
\* the values getAttribute('data-github') has on the cards
GithubUrls == {Null, "", "https://github.com/x/y"}
\* the keys of the keydown events delivered to the document
Keys == {"Escape", "Enter"}
\* event.target of a click inside the modal: the backdrop itself or its content
ModalTargets == {"modal", "content"}

\* calls counts the calls of openPdfModal the event makes
Modal == [display |-> display, src |-> viewerSrc, overflow |-> overflow,
          alert |-> NoAlert, tab |-> Null, calls |-> 0]

SetModal(m) ==
    /\ display' = m.display
    /\ viewerSrc' = m.src
    /\ overflow' = m.overflow
    /\ alertMsg' = m.alert
    /\ tabUrl' = m.tab
    /\ openCalls' = m.calls

\* openPdfModal without the return after the alert
openPdfModalAlertAndOpen(m, pdfPath) ==
    IF Falsy(pdfPath)
    THEN [m EXCEPT !.alert = PdfAlert, !.display = "flex", !.overflow = "hidden",
                   !.calls = @ + 1]
    ELSE [m EXCEPT !.display = "flex", !.src = pdfPath, !.overflow = "hidden",
                   !.calls = @ + 1]

\* openPdfModal(pdfPath)
openPdfModal(m, pdfPath) ==
    IF Falsy(pdfPath)
    THEN [m EXCEPT !.alert = PdfAlert, !.calls = @ + 1]
    ELSE [m EXCEPT !.display = "flex", !.src = pdfPath, !.overflow = "hidden",
                   !.calls = @ + 1]

\* openGitHubRepository(githubUrl)
openGitHubRepository(m, githubUrl) ==
    IF Falsy(githubUrl)
    THEN [m EXCEPT !.alert = GitHubAlert]
    ELSE [m EXCEPT !.tab = githubUrl]

\* closePdfModal without clearing the viewer
closePdfModalKeepsSrc(m) ==
    [m EXCEPT !.display = "none", !.overflow = "auto"]

\* closePdfModal()
closePdfModal(m) ==
    [m EXCEPT !.display = "none", !.src = "", !.overflow = "auto"]

\* what the user sees of the modal: nothing while it is not displayed, else the
\* document of the viewer frame, or the fallback message that replaced the frame
ModalShows ==
    IF display # "flex" THEN "nothing"
    ELSE IF viewerAttached THEN viewerSrc
    ELSE "fallback"

\* the modal as the markup and the stylesheet leave it: no inline style set yet
ModalInit ==
    /\ display = ""
    /\ viewerSrc = ""
    /\ overflow = ""
    /\ viewerAttached = TRUE

\* setupProjectCards: the PDF button of a project card gets a click listener only
\* when the card has a truthy data-pdf
pdfListenerRegistered(pdfPath) == ~Falsy(pdfPath)

\* and the GitHub button only when the card has a truthy data-github
githubListenerRegistered(githubUrl) == ~Falsy(githubUrl)

\* a click on the PDF button of a project card whose data-pdf is pdfPath
ProjectPdfButtonClick(pdfPath) ==
    /\ IF pdfListenerRegistered(pdfPath)
       THEN SetModal(openPdfModal(Modal, pdfPath))
       ELSE SetModal(Modal)
    /\ Deliver([type |-> "pdfButton", arg |-> pdfPath, card |-> 0])
    /\ UNCHANGED <<navVars, viewerAttached, cardVars, headerVars, errorVars,
                   pubIsProject, rowVars, animVars>>

\* a click on the GitHub button of a project card whose data-github is githubUrl
ProjectGithubButtonClick(githubUrl) ==
    /\ IF githubListenerRegistered(githubUrl)
       THEN SetModal(openGitHubRepository(Modal, githubUrl))
       ELSE SetModal(Modal)
    /\ Deliver([type |-> "githubButton", arg |-> githubUrl, card |-> 0])
    /\ UNCHANGED <<navVars, viewerAttached, cardVars, headerVars, errorVars,
                   pubIsProject, rowVars, animVars>>

\* window.portfolioDebug.openPdfModal(pdfPath)
DebugOpenPdfModal(pdfPath) ==
    /\ SetModal(openPdfModal(Modal, pdfPath))
    /\ Deliver([type |-> "openPdfModal", arg |-> pdfPath, card |-> 0])
    /\ UNCHANGED <<navVars, viewerAttached, cardVars, headerVars, errorVars,
                   pubIsProject, rowVars, animVars>>

\* a click on .modal-close
ModalCloseButtonClick ==
    /\ SetModal(closePdfModal(Modal))
    /\ Deliver([type |-> "closeButton", arg |-> "", card |-> 0])
    /\ UNCHANGED <<navVars, viewerAttached, cardVars, headerVars, errorVars,
                   pubIsProject, rowVars, animVars>>

\* a click that reaches documentModal with event.target = target
ModalClick(target) ==
    /\ IF target = "modal"
       THEN SetModal(closePdfModal(Modal))
       ELSE SetModal(Modal)
    /\ Deliver([type |-> "modalClick", arg |-> target, card |-> 0])
    /\ UNCHANGED <<navVars, viewerAttached, cardVars, headerVars, errorVars,
                   pubIsProject, rowVars, animVars>>

\* a keydown on the document
KeyDown(key) ==
    /\ IF key = "Escape" /\ display = "flex"
       THEN SetModal(closePdfModal(Modal))
       ELSE SetModal(Modal)
    /\ Deliver([type |-> "keydown", arg |-> key, card |-> 0])
    /\ UNCHANGED <<navVars, viewerAttached, cardVars, headerVars, errorVars,
                   pubIsProject, rowVars, animVars>>

\* an error listener that leaves the markup alone
viewerErrorKeepsFrame == viewerAttached

\* whether the frame is still in the modal after the viewer's error listener ran:
\* the listener replaces the markup of the frame's parent, the frame included
viewerErrorHandler == FALSE

\* the viewer frame, still in the document and loading a document, fires 'error'
ViewerError ==
    /\ viewerAttached
    /\ ~Falsy(viewerSrc)
    /\ viewerAttached' = viewerErrorHandler
    /\ SetModal(Modal)
    /\ Deliver([type |-> "viewerError", arg |-> viewerSrc, card |-> 0])
    /\ UNCHANGED <<navVars, cardVars, headerVars, errorVars, pubIsProject, rowVars,
                   animVars>>

(***************************************************************************)
(* INSTITUTION CARDS AND ROW SYNCHRONISATION                               *)
(***************************************************************************)
\* the number of institution cards of the document
NumCards == 3

Cards == 1..NumCards

\* getBoundingClientRect().top of a card, in half pixels (so 101 is 50.5px)
Tops2 == {0, 101, 102}

\* a card is a .project-card inside .projects-grid ("grid"), or an institution
\* card outside the grid: a work or training card ("single"); it may lack its
\* .modules-content or its .expand-icon i
CardLayouts ==
    [kind : {"grid"}, top2 : Tops2, modules : BOOLEAN, icon : BOOLEAN]
      \cup [kind : {"single"}, top2 : {0}, modules : BOOLEAN, icon : BOOLEAN]

\* Math.floor(rect.top)
FloorTop(c) == layout[c].top2 \div 2

Abs(n) == IF n < 0 THEN -n ELSE n

tolerance == 50

\* document.querySelectorAll('.projects-grid .project-card')
allProjectCards == {c \in Cards : layout[c].kind = "grid"}

\* getCardsInSameRow without the comparison of the tops
getCardsInSameRowAll(targetCard, allCards) == allCards

\* getCardsInSameRow with < for <=
getCardsInSameRowStrict(targetCard, allCards) ==
    {c \in allCards : Abs(FloorTop(targetCard) - FloorTop(c)) < tolerance}

\* getCardsInSameRow(targetCard, allCards)
getCardsInSameRow(targetCard, allCards) ==
    {c \in allCards : Abs(FloorTop(targetCard) - FloorTop(c)) <= tolerance}

\* cs = [expanded, contentDisplay, iconTransform], the state of the cards

\* expandCardsInRow that expands the target card alone
expandCardsInRowOnlyTarget(cs, targetCard, allCards) ==
    [expanded       |-> cs.expanded \cup {targetCard},
     contentDisplay |-> [cs.contentDisplay EXCEPT ![targetCard] = "block"],
     iconTransform  |-> [cs.iconTransform EXCEPT ![targetCard] = "rotate(180deg)"]]

\* expandCardsInRow(targetCard, allCards)
expandCardsInRow(cs, targetCard, allCards) ==
    LET rowCards == getCardsInSameRow(targetCard, allCards)
        hit == {c \in rowCards :
                  c \notin cs.expanded /\ layout[c].modules /\ layout[c].icon}
    IN  [expanded       |-> cs.expanded \cup hit,
         contentDisplay |-> [c \in Cards |->
                               IF c \in hit THEN "block" ELSE cs.contentDisplay[c]],
         iconTransform  |-> [c \in Cards |->
                               IF c \in hit THEN "rotate(180deg)" ELSE cs.iconTransform[c]]]

\* collapseCardsInRow(targetCard, allCards)
collapseCardsInRow(cs, targetCard, allCards) ==
    LET rowCards == getCardsInSameRow(targetCard, allCards)
        hit == {c \in rowCards :
                  c \in cs.expanded /\ layout[c].modules /\ layout[c].icon}
    IN  [expanded       |-> cs.expanded \ hit,
         contentDisplay |-> [c \in Cards |->
                               IF c \in hit THEN "none" ELSE cs.contentDisplay[c]],
         iconTransform  |-> [c \in Cards |->
                               IF c \in hit THEN "rotate(0deg)" ELSE cs.iconTransform[c]]]

\* the individual toggle of a card outside the grid; a missing .modules-content
\* or .expand-icon i throws at its first use, after the class was changed
toggleSingle(cs, card) ==
    LET isExpanded == card \in cs.expanded
        m == layout[card].modules
        i == layout[card].modules /\ layout[card].icon
    IN  [expanded       |-> IF isExpanded THEN cs.expanded \ {card}
                            ELSE cs.expanded \cup {card},
         contentDisplay |-> IF m
                            THEN [cs.contentDisplay EXCEPT
                                    ![card] = IF isExpanded THEN "none" ELSE "block"]
                            ELSE cs.contentDisplay,
         iconTransform  |-> IF i
                            THEN [cs.iconTransform EXCEPT
                                    ![card] = IF isExpanded THEN "rotate(0deg)"
                                              ELSE "rotate(180deg)"]
                            ELSE cs.iconTransform]

\* toggleInstitutionCard(card)
toggleInstitutionCard(cs, card) ==
    IF layout[card].kind = "grid"
    THEN IF card \in cs.expanded
         THEN collapseCardsInRow(cs, card, allProjectCards)
         ELSE expandCardsInRow(cs, card, allProjectCards)
    ELSE toggleSingle(cs, card)

CardState == [expanded |-> expanded, contentDisplay |-> contentDisplay,
              iconTransform |-> iconTransform]

SetCards(cs) ==
    /\ expanded' = cs.expanded
    /\ contentDisplay' = cs.contentDisplay
    /\ iconTransform' = cs.iconTransform

\* the cards as the markup leaves them: collapsed, no inline style set
Collapsed ==
    [expanded |-> {}, contentDisplay |-> [c \in Cards |-> ""],
     iconTransform |-> [c \in Cards |-> ""]]

CardIdle ==
    /\ layout = [c \in Cards |-> [kind |-> "grid", top2 |-> 0,
                                  modules |-> TRUE, icon |-> TRUE]]
    /\ expanded = Collapsed.expanded
    /\ contentDisplay = Collapsed.contentDisplay
    /\ iconTransform = Collapsed.iconTransform

\* the cards of a grid are laid out in document order: a later card is not
\* above an earlier one (the script itself treats the cards alike whatever
\* their order)
InDocumentOrder(l) ==
    \A c, d \in Cards :
        (c < d /\ l[c].kind = "grid" /\ l[d].kind = "grid") => l[c].top2 <= l[d].top2

CardInit ==
    /\ layout \in [Cards -> CardLayouts]
    /\ InDocumentOrder(layout)
    /\ expanded = Collapsed.expanded
    /\ contentDisplay = Collapsed.contentDisplay
    /\ iconTransform = Collapsed.iconTransform

(***************************************************************************)
(* ANIMATIONS AND TIMERS                                                   *)
(***************************************************************************)
\* a card has one .module-item, one .project-actions .action-button, both or none
Items == {"module-item", "action-button"}

\* the most callbacks that may be pending at once
MaxPending == 4

\* a pending callback: run says which one, card and cards are what it closed over
Timer(r, card, cards, item) == [run |-> r, card |-> card, cards |-> cards, item |-> item]

\* an = [timers, opacity], the pending callbacks and the opacity of the items
AnimState == [timers |-> timers, opacity |-> opacity]

SetAnim(an) ==
    /\ timers' = an.timers
    /\ opacity' = an.opacity

NoOpacity == [c \in Cards |-> [i \in Items |-> ""]]

AnimIdle ==
    /\ items = [c \in Cards |-> {}]
    /\ timers = EmptyBag
    /\ opacity = NoOpacity

\* the items the callback of the wrapper animates on card: the module items,
\* and the action buttons too when the card is inside .projects-grid
contentItems(card) ==
    IF layout[card].kind = "grid" THEN items[card]
    ELSE items[card] \cap {"module-item"}

\* a callback that finds no element to change changes nothing, and is left out
\* of the pending callbacks
Effective(t) ==
    CASE t.run = "show" -> TRUE
      [] t.run = "content" -> contentItems(t.card) # {}
      [] t.run = "animate" -> items[t.card] # {}
      [] t.run = "stagger" -> \E c \in t.cards \ {t.card} : items[c] # {}

Schedule(b, ts) ==
    LET effective == {t \in ts : Effective(t)}
    IN  IF effective = {} THEN b ELSE b (+) SetToBag(effective)

\* the callbacks that one pending callback may leave pending at once
Weight(t) ==
    CASE t.run = "show" -> 1
      [] t.run = "content" -> Cardinality(contentItems(t.card))
      [] t.run = "animate" -> Cardinality(items[t.card])
      [] t.run = "stagger" -> Cardinality({<<c, i>> \in Cards \X Items :
                                              c \in t.cards \ {t.card} /\ i \in items[c]})

RECURSIVE SumWeight(_, _)
SumWeight(b, ts) ==
    IF ts = {} THEN 0
    ELSE LET t == CHOOSE x \in ts : TRUE
         IN  CopiesIn(t, b) * Weight(t) + SumWeight(b, ts \ {t})

PendingWeight(b) == SumWeight(b, BagToSet(b))

\* the reset of an animation that schedules no callback to show the item again
animateNoShow(an, card, its) ==
    [timers  |-> an.timers,
     opacity |-> [an.opacity EXCEPT ![card] =
                     [i \in Items |-> IF i \in its THEN "0" ELSE @[i]]]]

\* the body shared by animateModuleItems and animateProjectActions: every item
\* is reset to opacity '0' and a callback is scheduled that sets it to '1'
animate(an, card, its) ==
    [timers  |-> Schedule(an.timers, {Timer("show", card, {}, i) : i \in its}),
     opacity |-> [an.opacity EXCEPT ![card] =
                     [i \in Items |-> IF i \in its THEN "0" ELSE @[i]]]]

\* animateModuleItems(card)
animateModuleItems(an, card) == animate(an, card, items[card] \cap {"module-item"})

\* animateProjectActions(card)
animateProjectActions(an, card) == animate(an, card, items[card] \cap {"action-button"})

\* the callbacks toggleInstitutionCard schedules when it expands a row of the
\* grid: one that later schedules the animation of the other cards of the row
staggerTimers(cs, card) ==
    IF layout[card].kind = "grid" /\ card \notin cs.expanded
    THEN {Timer("stagger", card, getCardsInSameRow(card, allProjectCards), "")}
    ELSE {}

\* whether toggleInstitutionCard throws: outside the grid it uses the
\* .modules-content and the .expand-icon i of the card unchecked
toggleThrows(card) ==
    layout[card].kind # "grid" /\ ~(layout[card].modules /\ layout[card].icon)

\* the wrapper that replaced toggleInstitutionCard is installed after the work
\* and the project cards were set up
wrapperInstalled == initEnd \in {"tracking", "done"}

\* the callback the wrapper schedules when the card was just expanded
contentTimers(cs, cs2, card) ==
    IF /\ wrapperInstalled
       /\ ~toggleThrows(card)
       /\ card \notin cs.expanded
       /\ card \in cs2.expanded
    THEN {Timer("content", card, {}, "")}
    ELSE {}

\* the pending callbacks after toggleInstitutionCard(card) took the cards from
\* cs to cs2
toggleTimers(cs, cs2, card) ==
    Schedule(timers, staggerTimers(cs, card) \cup contentTimers(cs, cs2, card))

\* what the callback t does when it runs
runTimer(an, t) ==
    CASE t.run = "show" ->
           [an EXCEPT !.opacity[t.card][t.item] = "1"]
      [] t.run = "content" ->
           IF layout[t.card].kind = "grid"
           THEN animateProjectActions(animateModuleItems(an, t.card), t.card)
           ELSE animateModuleItems(an, t.card)
      [] t.run = "animate" ->
           animateProjectActions(animateModuleItems(an, t.card), t.card)
      [] t.run = "stagger" ->
           [an EXCEPT !.timers =
               Schedule(@, {Timer("animate", c, {}, "") : c \in t.cards \ {t.card}})]

(***************************************************************************)
(* HEADER LISTENERS, TRACKING AND UNCAUGHT ERRORS                          *)
(***************************************************************************)
\* the keys of the keypress events delivered to a header
HeaderKeys == {"Enter", " ", "a"}

Min(S) == CHOOSE x \in S : \A y \in S : x <= y

\* the first card of S, in document order, that has no .training-name; 0 if
\* there is none
FirstUnnamed(S) == IF S \ named = {} THEN 0 ELSE Min(S \ named)

\* document.querySelectorAll('.projects-grid .project-card, .publications-list
\* .project-card'), as far as they are institution cards
projectCards == allProjectCards

\* where the DOMContentLoaded listener ends: the set up of the work cards, of
\* the project cards and of the institution tracking each read the textContent
\* of the .training-name of every card they visit
InitEnd ==
    IF FirstUnnamed(work) # 0 THEN "work"
    ELSE IF FirstUnnamed(projectCards) # 0 THEN "projects"
    ELSE IF FirstUnnamed(Cards) # 0 THEN "tracking"
    ELSE "done"

\* the state the DOMContentLoaded listener leaves: the window 'error' listener
\* is registered after the work and project cards, before the tracking
Initialised ==
    /\ initEnd = InitEnd
    /\ listening = (InitEnd \in {"tracking", "done"})
    /\ thrown = (InitEnd # "done")
    /\ logged = (InitEnd = "tracking")

\* whether the loop t registered its tracking listener on the header of card:
\* each loop registered them up to the card at which it threw
trackerRegistered(t, card) ==
    CASE t = "work" ->
           /\ card \in work
           /\ FirstUnnamed(work) \notin 1..card
      [] t = "project" ->
           /\ initEnd \in {"projects", "tracking", "done"}
           /\ card \in projectCards
           /\ FirstUnnamed(projectCards) \notin 1..card
      [] t = "institution" ->
           /\ initEnd \in {"tracking", "done"}
           /\ FirstUnnamed(Cards) \notin 1..card

\* the tracking listeners on the header of card, in registration order
trackers(card) ==
    {t \in {"work", "project", "institution"} : trackerRegistered(t, card)}

\* what the tracking listeners of card log at a click: they run after the
\* listener that toggles, cs2 is the state of the cards they read
tracking(cs, cs2, card) ==
    {[by |-> t, action |-> IF card \notin cs2.expanded THEN "expanded" ELSE "collapsed"] :
        t \in trackers(card)}

HeaderIdle ==
    /\ work = {}
    /\ named = Cards
    /\ aria = [c \in Cards |-> "false"]
    /\ tracked = {}

PubIdle ==
    /\ pubIsProject = FALSE
    /\ openCalls = 0

RowIdle ==
    /\ resized = FALSE
    /\ rowInfo = <<>>

\* a click on the .institution-header of card: the listener that calls
\* toggleInstitutionCard (by then the wrapper, if it was installed), then the
\* tracking listeners of the header; an error thrown by the first is reported
\* to the window and does not keep the others from running
HeaderClick(card) ==
    /\ SetCards(toggleInstitutionCard(CardState, card))
    /\ timers' = toggleTimers(CardState, CardState', card)
    /\ PendingWeight(timers') <= MaxPending
    /\ tracked' = tracking(CardState, CardState', card)
    /\ thrown' = toggleThrows(card)
    /\ logged' = (toggleThrows(card) /\ listening)
    /\ lastEvent' = [type |-> "headerClick", arg |-> "", card |-> card]
    /\ before' = NoBefore
    /\ UNCHANGED <<navVars, alertMsg, tabUrl, modalVars, layout, work, named, aria,
                   initEnd, listening, pubVars, rowVars, items, opacity>>

\* the aria-expanded attribute after the keypress listener of card ran
ariaAfterKey(cs2, card) ==
    [aria EXCEPT ![card] = IF card \in cs2.expanded THEN "true" ELSE "false"]

\* a keypress on the .institution-header of card: Enter and Space toggle the
\* card and then set aria-expanded from the class; an error thrown by the toggle
\* ends the listener before that
KeyPress(card, key) ==
    /\ IF key \in {"Enter", " "}
       THEN /\ SetCards(toggleInstitutionCard(CardState, card))
            /\ timers' = toggleTimers(CardState, CardState', card)
            /\ PendingWeight(timers') <= MaxPending
            /\ aria' = IF toggleThrows(card) THEN aria
                       ELSE ariaAfterKey(CardState', card)
            /\ thrown' = toggleThrows(card)
            /\ logged' = (toggleThrows(card) /\ listening)
       ELSE /\ SetCards(CardState)
            /\ UNCHANGED <<timers, aria>>
            /\ thrown' = FALSE
            /\ logged' = FALSE
    /\ tracked' = {}
    /\ lastEvent' = [type |-> "keypress", arg |-> key, card |-> card]
    /\ before' = NoBefore
    /\ UNCHANGED <<navVars, alertMsg, tabUrl, modalVars, layout, work, named,
                   initEnd, listening, pubVars, rowVars, items, opacity>>

\* a pending callback runs; the browser may run the pending callbacks later
\* than their delay, so any of them may be the next
TimerFires(t) ==
    /\ BagIn(t, timers)
    /\ SetAnim(runTimer([AnimState EXCEPT !.timers = @ (-) SetToBag({t})], t))
    /\ tracked' = {}
    /\ thrown' = FALSE
    /\ logged' = FALSE
    /\ lastEvent' = [type |-> "timer", arg |-> t.run, card |-> t.card]
    /\ before' = NoBefore
    /\ UNCHANGED <<navVars, alertMsg, tabUrl, modalVars, cardVars, work, named, aria,
                   initEnd, listening, pubVars, rowVars, items>>

(***************************************************************************)
(* PUBLICATION CARDS                                                       *)
(***************************************************************************)
\* the iterations of projectCards.forEach in setupProjectCards that reach the
\* set up of the publication cards; the publication card, when it is a project
\* card itself, has a .training-name and follows the cards of the grid
setupIterations ==
    IF initEnd = "work" THEN 0
    ELSE IF FirstUnnamed(projectCards) # 0
    THEN Cardinality({c \in projectCards : c < FirstUnnamed(projectCards)})
    ELSE Cardinality(projectCards) + (IF pubIsProject THEN 1 ELSE 0)

\* the click listeners on the PDF button of the publication card whose data-pdf
\* is pdfPath: one per iteration of the loop around the set up of the publication
\* cards, and the one of the project cards when the card is one of them
publicationListeners(pdfPath) ==
    IF Falsy(pdfPath) THEN 0
    ELSE setupIterations
           + (IF pubIsProject /\ FirstUnnamed(projectCards) = 0 /\ initEnd # "work"
              THEN 1 ELSE 0)

\* openPdfModal(pdfPath) called n times
RECURSIVE openPdfModalTimes(_, _, _)
openPdfModalTimes(m, pdfPath, n) ==
    IF n = 0 THEN m
    ELSE openPdfModalTimes(openPdfModal(m, pdfPath), pdfPath, n - 1)

\* a click on the PDF button of the publication card whose data-pdf is pdfPath:
\* every listener of the button runs
PublicationPdfButtonClick(pdfPath) ==
    /\ SetModal(openPdfModalTimes(Modal, pdfPath, publicationListeners(pdfPath)))
    /\ Deliver([type |-> "publicationPdf", arg |-> pdfPath, card |-> 0])
    /\ UNCHANGED <<navVars, viewerAttached, cardVars, headerVars, errorVars,
                   pubIsProject, rowVars, animVars>>

(***************************************************************************)
(* ROW INFORMATION AND WINDOW RESIZE                                       *)
(***************************************************************************)
\* Array.from(allProjectCards).indexOf(card)
indexOf(card) == Cardinality({c \in allProjectCards : c < card})

\* the loop of getRowInfo from card c on: processed are the cards added to
\* processedCards, rows the rows pushed so far
RECURSIVE getRowInfoFrom(_, _, _)
getRowInfoFrom(c, processedCards, rows) ==
    IF c > NumCards THEN rows
    ELSE IF c \notin allProjectCards \/ c \in processedCards
    THEN getRowInfoFrom(c + 1, processedCards, rows)
    ELSE LET rowCards == getCardsInSameRow(c, allProjectCards)
         IN  getRowInfoFrom(c + 1, processedCards \cup rowCards,
                 Append(rows, [rowIndex      |-> Len(rows),
                               cardCount     |-> Cardinality(rowCards),
                               cardIndices   |-> {indexOf(d) : d \in rowCards},
                               expandedCount |-> Cardinality(rowCards \cap expanded)]))

\* window.portfolioDebug.getRowInfo()
getRowInfo == getRowInfoFrom(1, {}, <<>>)

DebugGetRowInfo ==
    /\ rowInfo' = getRowInfo
    /\ tracked' = {}
    /\ lastEvent' = [type |-> "getRowInfo", arg |-> "", card |-> 0]
    /\ before' = NoBefore
    /\ UNCHANGED <<navVars, alertMsg, tabUrl, modalVars, cardVars, work, named, aria,
                   errorVars, pubVars, resized, animVars>>

\* the layout when the cards of the grid move to the tops given: the same
\* cards, the cards outside the grid where they were
Regrouped(tops) ==
    [c \in Cards |-> IF layout[c].kind = "grid"
                     THEN [layout[c] EXCEPT !.top2 = tops[c]]
                     ELSE layout[c]]

\* the window is resized and the grid laid out anew; the resize listener only
\* logs, the classes and styles of the cards stay
Resize(tops) ==
    /\ InDocumentOrder(Regrouped(tops))
    /\ Regrouped(tops) # layout
    /\ layout' = Regrouped(tops)
    /\ resized' = TRUE
    /\ tracked' = {}
    /\ lastEvent' = [type |-> "resize", arg |-> "", card |-> 0]
    /\ before' = NoBefore
    /\ UNCHANGED <<navVars, alertMsg, tabUrl, modalVars, expanded, contentDisplay,
                   iconTransform, work, named, aria, errorVars, pubVars, rowInfo,
                   animVars>>

(***************************************************************************)
(* The document is loaded afresh (a bookmark, a new tab, a reload) at the  *)
(* url in the address bar: the script starts over on the same markup.      *)
(***************************************************************************)
LoadDocument ==
    /\ SetNav(Loaded(CurrentUrl))
    /\ run' = NewRun(FirstShown(CurrentUrl))
    /\ Deliver([type |-> "load", arg |-> CurrentUrl, card |-> 0])
    /\ alertMsg' = NoAlert
    /\ tabUrl' = Null
    /\ display' = ""
    /\ viewerSrc' = ""
    /\ overflow' = ""
    /\ viewerAttached' = TRUE
    /\ SetCards(Collapsed)
    /\ aria' = [c \in Cards |-> "false"]
    /\ tracked' = {}
    /\ initEnd' = InitEnd
    /\ listening' = (InitEnd \in {"tracking", "done"})
    /\ thrown' = (InitEnd # "done")
    /\ logged' = (InitEnd = "tracking")
    /\ openCalls' = 0
    /\ resized' = FALSE
    /\ rowInfo' = <<>>
    /\ timers' = EmptyBag
    /\ opacity' = NoOpacity
    /\ UNCHANGED <<elems, pages, layout, work, named, pubIsProject, items>>

(***************************************************************************)
(* Specifications                                                          *)
(***************************************************************************)
NoOutput ==
    /\ before = NoBefore
    /\ alertMsg = NoAlert
    /\ tabUrl = Null

\* the parts of the state the specifications of the navigation, the modal and
\* the row synchronisation leave alone
OthersIdle ==
    /\ HeaderIdle
    /\ Initialised
    /\ PubIdle
    /\ RowIdle
    /\ AnimIdle

NavSpecInit ==
    /\ NavInit
    /\ NoOutput
    /\ ModalInit
    /\ CardIdle
    /\ OthersIdle

NavNext ==
    \/ \E p \in DataPages : NavButtonClick(p)
    \/ BrowserBack
    \/ BrowserForward
    \/ LoadDocument

NavSpec == NavSpecInit /\ [][NavNext]_vars

ModalSpecInit ==
    /\ NavIdle
    /\ lastEvent = [type |-> "load", arg |-> "", card |-> 0]
    /\ NoOutput
    /\ ModalInit
    /\ CardIdle
    /\ OthersIdle

ModalNext ==
    \/ \E pdfPath \in PdfPaths : ProjectPdfButtonClick(pdfPath)
    \/ \E githubUrl \in GithubUrls : ProjectGithubButtonClick(githubUrl)
    \/ \E pdfPath \in PdfPaths : DebugOpenPdfModal(pdfPath)
    \/ ModalCloseButtonClick
    \/ \E target \in ModalTargets : ModalClick(target)
    \/ \E key \in Keys : KeyDown(key)
    \/ ViewerError
    \/ LoadDocument

ModalSpec == ModalSpecInit /\ [][ModalNext]_vars

CardSpecInit ==
    /\ NavIdle
    /\ lastEvent = [type |-> "load", arg |-> "", card |-> 0]
    /\ NoOutput
    /\ ModalInit
    /\ CardInit
    /\ OthersIdle

CardNext ==
    \/ \E card \in Cards : HeaderClick(card)
    \/ LoadDocument

CardSpec == CardSpecInit /\ [][CardNext]_vars

\* the cards that have both a .modules-content and an .expand-icon i, the
\* cards of the grid in two rows that are more than 50px apart
CompleteLayouts == {l \in CardLayouts : l.modules /\ l.icon /\ l.top2 \in {0, 102}}

\* the cards of the grid precede the other cards in the document
GridFirst(l) ==
    \A c, d \in Cards : (c < d /\ l[d].kind = "grid") => l[c].kind = "grid"

\* the headers as the set up of the cards leaves them: aria-expanded 'false';
\* the cards outside the grid are work cards, or none of them is
HeaderInit ==
    /\ layout \in [Cards -> CompleteLayouts]
    /\ InDocumentOrder(layout)
    /\ GridFirst(layout)
    /\ expanded = Collapsed.expanded
    /\ contentDisplay = Collapsed.contentDisplay
    /\ iconTransform = Collapsed.iconTransform
    /\ work \in {{}, {c \in Cards : layout[c].kind = "single"}}
    /\ named = Cards
    /\ aria = [c \in Cards |-> "false"]
    /\ tracked = {}

HeaderSpecInit ==
    /\ NavIdle
    /\ lastEvent = [type |-> "load", arg |-> "", card |-> 0]
    /\ NoOutput
    /\ ModalInit
    /\ HeaderInit
    /\ Initialised
    /\ PubIdle
    /\ RowIdle
    /\ AnimIdle

HeaderNext ==
    \/ \E card \in Cards : HeaderClick(card)
    \/ \E card \in Cards, key \in HeaderKeys : KeyPress(card, key)
    \/ LoadDocument

HeaderSpec == HeaderSpecInit /\ [][HeaderNext]_vars

\* a document with a publication card: any number of the institution cards are
\* project cards of the grid, the publication card may be a project card too
PubInit ==
    /\ layout \in [Cards -> {l \in CompleteLayouts : l.top2 = 0}]
    /\ expanded = Collapsed.expanded
    /\ contentDisplay = Collapsed.contentDisplay
    /\ iconTransform = Collapsed.iconTransform
    /\ pubIsProject \in BOOLEAN
    /\ openCalls = 0

PubSpecInit ==
    /\ NavIdle
    /\ lastEvent = [type |-> "load", arg |-> "", card |-> 0]
    /\ NoOutput
    /\ ModalInit
    /\ PubInit
    /\ HeaderIdle
    /\ Initialised
    /\ RowIdle
    /\ AnimIdle

PubNext ==
    \/ \E pdfPath \in PdfPaths : PublicationPdfButtonClick(pdfPath)
    \/ ModalCloseButtonClick
    \/ \E key \in Keys : KeyDown(key)
    \/ LoadDocument

PubSpec == PubSpecInit /\ [][PubNext]_vars

\* a document whose cards may lack the .training-name, and outside the grid
\* the .modules-content
ErrorInit ==
    /\ layout \in [Cards -> {l \in CardLayouts :
                                /\ l.top2 = 0
                                /\ l.icon
                                /\ l.kind = "grid" => l.modules}]
    /\ expanded = Collapsed.expanded
    /\ contentDisplay = Collapsed.contentDisplay
    /\ iconTransform = Collapsed.iconTransform
    /\ work \in {{}, {c \in Cards : layout[c].kind = "single"}}
    /\ named \in SUBSET Cards
    /\ aria = [c \in Cards |-> "false"]
    /\ tracked = {}

ErrorSpecInit ==
    /\ NavIdle
    /\ lastEvent = [type |-> "load", arg |-> "", card |-> 0]
    /\ NoOutput
    /\ ModalInit
    /\ ErrorInit
    /\ Initialised
    /\ PubIdle
    /\ RowIdle
    /\ AnimIdle

ErrorNext ==
    \/ \E card \in Cards : HeaderClick(card)
    \/ \E card \in Cards : KeyPress(card, "Enter")
    \/ LoadDocument

ErrorSpec == ErrorSpecInit /\ [][ErrorNext]_vars

\* two project cards in one row of the grid, the first with a module item and
\* an action button, the second with a module item; the other cards are outside
\* the grid, the first of them with a module item
AnimLayout ==
    [c \in Cards |-> [kind |-> IF c <= 2 THEN "grid" ELSE "single", top2 |-> 0,
                      modules |-> TRUE, icon |-> TRUE]]

AnimItems ==
    [c \in Cards |-> IF c = 1 THEN Items
                     ELSE IF c <= 3 THEN {"module-item"}
                     ELSE {}]

AnimInit ==
    /\ layout = AnimLayout
    /\ expanded = Collapsed.expanded
    /\ contentDisplay = Collapsed.contentDisplay
    /\ iconTransform = Collapsed.iconTransform
    /\ items = AnimItems
    /\ timers = EmptyBag
    /\ opacity = NoOpacity

AnimSpecInit ==
    /\ NavIdle
    /\ lastEvent = [type |-> "load", arg |-> "", card |-> 0]
    /\ NoOutput
    /\ ModalInit
    /\ AnimInit
    /\ HeaderIdle
    /\ Initialised
    /\ PubIdle
    /\ RowIdle

AnimNext ==
    \/ \E card \in Cards : HeaderClick(card)
    \/ \E t \in BagToSet(timers) : TimerFires(t)
    \/ LoadDocument

AnimSpec == AnimSpecInit /\ [][AnimNext]_vars

\* a grid of complete project cards, at any tops
GridInit ==
    /\ layout \in [Cards -> {l \in CardLayouts : l.kind = "grid" /\ l.modules /\ l.icon}]
    /\ InDocumentOrder(layout)
    /\ expanded = Collapsed.expanded
    /\ contentDisplay = Collapsed.contentDisplay
    /\ iconTransform = Collapsed.iconTransform

ResizeSpecInit ==
    /\ NavIdle
    /\ lastEvent = [type |-> "load", arg |-> "", card |-> 0]
    /\ NoOutput
    /\ ModalInit
    /\ GridInit
    /\ OthersIdle

ResizeNext ==
    \/ \E card \in Cards : HeaderClick(card)
    \/ \E card \in Cards : KeyPress(card, "Enter")
    \/ \E tops \in [Cards -> Tops2] : Resize(tops)
    \/ LoadDocument

ResizeSpec == ResizeSpecInit /\ [][ResizeNext]_vars

\* project cards and cards outside the grid, complete or not, at any tops
RowInfoSpecInit ==
    /\ NavIdle
    /\ lastEvent = [type |-> "load", arg |-> "", card |-> 0]
    /\ NoOutput
    /\ ModalInit
    /\ CardInit
    /\ OthersIdle

RowInfoNext ==
    \/ DebugGetRowInfo
    \/ \E card \in Cards : HeaderClick(card)
    \/ LoadDocument

RowInfoSpec == RowInfoSpecInit /\ [][RowInfoNext]_vars

(***************************************************************************)
(* CLAIMS: NAVIGATION (checked under NavSpec)                              *)
(***************************************************************************)
\* the page p is shown: of the pages, p and only p carries 'active'
Shows(p) == active \cap pages = {p}

\* C1: a click on the nav button of data-page P, P the id of one of the pages,
\* leaves P as the only page carrying 'active', whatever page was active before.
C1_ClickShowsOnlyTarget ==
    (lastEvent.type = "navClick" /\ lastEvent.arg \in pages)
        => (lastEvent.arg \in active
            /\ \A q \in pages : q \in active => q = lastEvent.arg)

\* C1 happens: a click has just shown a page while another page was shown before it
C1_Witness ==
    /\ lastEvent.type = "navClick"
    /\ before.event.type = "navClick"
    /\ before.event.arg \in pages
    /\ lastEvent.arg \in pages
    /\ before.event.arg # lastEvent.arg
    /\ active \cap pages = {lastEvent.arg}

\* the pages shown since the load, while the user only clicked nav buttons
ShownByRun == <<run.first>> \o run.clicks

\* C2 (as the claim states it): once home, A and B were shown in that order, A
\* and B by nav clicks, the back button shows A and the forward button after
\* it shows B again.
C2_BackThenForward ==
    LET m == Len(ShownByRun)
    IN  (/\ run.pure
         /\ Len(run.clicks) >= 2
         /\ run.backs = 1
         /\ ShownByRun[m - 2] = "home"
         /\ {"home", ShownByRun[m - 1], ShownByRun[m]} \subseteq pages)
        => IF run.fwds = 0
           THEN Shows(ShownByRun[m - 1])
           ELSE Shows(ShownByRun[m])

\* C3 (as the claim states it): after n nav clicks on pages, k < n presses of
\* the back button in a row show the page clicked k steps before the last one.
C3_BackKTimes ==
    LET n == Len(run.clicks)
    IN  (/\ run.pure
         /\ run.fwds = 0
         /\ run.backs >= 1
         /\ \A i \in 1..n : run.clicks[i] \in pages)
        => Shows(run.clicks[n - run.backs])

\* the hash of the url a load started from, without its '#', is h
HashIs(url, h) == url = "#" \o h

ListedWithElement(url) ==
    {h \in {"home", "work-experience", "training", "publications"} :
        HashIs(url, h) /\ h \in elems}

\* C4 (as the claim states it): after a load the active page is the one the hash
\* names when it is one of the four listed pages and has an element, and the
\* page 'home' in every other case.
C4_HomeOtherwise ==
    lastEvent.type = "load"
        => /\ \A h \in ListedWithElement(lastEvent.arg) : active = {h}
           /\ ListedWithElement(lastEvent.arg) = {} => active = {"home"}

\* C4 (amended): ... and in every other case the page 'home' when an element
\* with id 'home' exists, and no page at all when none exists.
C4_InitialPage ==
    lastEvent.type = "load"
        => /\ \A h \in ListedWithElement(lastEvent.arg) : active = {h}
           /\ ListedWithElement(lastEvent.arg) = {}
                => active = (IF "home" \in elems THEN {"home"} ELSE {})

\* C4 happens: a load at a listed hash without element fell back to home
C4_Witness ==
    /\ lastEvent.type = "load"
    /\ lastEvent.arg = "#training"
    /\ "training" \notin elems
    /\ active = {"home"}

\* the last event loaded the document afresh at the url that a click on the
\* nav button of data-page p had just produced
ReloadedAfterClick(p) ==
    /\ lastEvent.type = "load"
    /\ before.event.type = "navClick"
    /\ before.event.arg = p
    /\ lastEvent.arg = "#" \o p

\* C5 (as the claim states it): every page that a nav click can display is
\* displayed again by a fresh load at the url the click produced.
C5_EveryPageBookmarkable ==
    \A p \in DataPages :
        (lastEvent.type = "load" /\ before.event.type = "navClick"
            /\ before.event.arg = p /\ p \in elems)
        => (ReloadedAfterClick(p) /\ active = {p})

\* C5 (amended): every page among 'home', 'work-experience', 'training',
\* 'publications' that a nav click can display is displayed again by a fresh
\* load at the url the click produced.
C5_ListedPageBookmarkable ==
    \A p \in DataPages \cap {"home", "work-experience", "training", "publications"} :
        (lastEvent.type = "load" /\ before.event.type = "navClick"
            /\ before.event.arg = p /\ p \in elems)
        => (ReloadedAfterClick(p) /\ active = {p})

\* C5 happens: the page of a click was shown again by the fresh load
C5_Witness ==
    /\ ReloadedAfterClick("training")
    /\ "training" \in pages
    /\ active = {"training"}

(***************************************************************************)
(* CLAIMS: PDF MODAL AND GITHUB LINKS (checked under ModalSpec)            *)
(***************************************************************************)
\* the last event was a click on the PDF button of a card without PDF link
ClickedPdfButtonWithoutLink ==
    lastEvent.type = "pdfButton" /\ lastEvent.arg \in {Null, ""}

\* the last event was a click on the GitHub button of a card without GitHub link
ClickedGithubButtonWithoutLink ==
    lastEvent.type = "githubButton" /\ lastEvent.arg \in {Null, ""}

\* C6 (as the claim states it): a click on the PDF button, respectively the
\* GitHub button, of a project card without that link raises the alert saying
\* the link is not available, and opens neither the modal nor a new tab.
C6_AlertForMissingLink ==
    /\ ClickedPdfButtonWithoutLink
         => (alertMsg = PdfAlert /\ tabUrl = Null
             /\ (display = "flex" => before.wasOpen))
    /\ ClickedGithubButtonWithoutLink
         => (alertMsg = GitHubAlert /\ tabUrl = Null
             /\ (display = "flex" => before.wasOpen))

\* C7: openPdfModal with a missing or empty path only raises the alert: the
\* modal's display, the viewer's src and the body's overflow stay as they
\* were, whether the modal was open or closed.
C7_MissingPathOnlyAlerts ==
    [][(lastEvent'.type = "openPdfModal" /\ lastEvent'.arg \in {Null, ""})
         => /\ alertMsg' = PdfAlert
            /\ display' = display
            /\ viewerSrc' = viewerSrc
            /\ overflow' = overflow]_vars

\* C7 happens: the call was made with the modal open on a document, which is
\* still displayed behind the alert
C7_Witness ==
    /\ lastEvent.type = "openPdfModal"
    /\ lastEvent.arg = ""
    /\ before.wasOpen
    /\ alertMsg = PdfAlert
    /\ display = "flex"
    /\ viewerSrc = "a.pdf"
    /\ overflow = "hidden"

\* the last event called openPdfModal with a document to show
AskedForDocument ==
    /\ lastEvent.type \in {"openPdfModal", "pdfButton"}
    /\ lastEvent.arg \notin {Null, ""}

\* C8: the viewer's error listener takes the frame out of the modal, which then
\* shows the fallback message; the frame stays out until the document is
\* loaded again, and every later call of openPdfModal with a document shows
\* the modal with the fallback message, never the document.
C8_NoRecoveryAfterLoadFailure ==
    [][/\ lastEvent'.type = "viewerError"
            => (~viewerAttached' /\ ModalShows' = "fallback")
       /\ (~viewerAttached /\ lastEvent'.type # "load")
            => /\ ~viewerAttached'
               /\ AskedForDocument' => (display' = "flex" /\ ModalShows' = "fallback")]_vars

\* C8 happens: after a load failure the modal was closed and another document
\* asked for, and the modal shows the fallback message
C8_Witness ==
    /\ ~viewerAttached
    /\ lastEvent.type = "openPdfModal"
    /\ lastEvent.arg = "b.pdf"
    /\ ~before.wasOpen
    /\ viewerSrc = "b.pdf"
    /\ ModalShows = "fallback"

\* the last event is one of the three that close the modal
CloseEvent ==
    \/ lastEvent.type = "closeButton"
    \/ lastEvent.type = "modalClick" /\ lastEvent.arg = "modal"
    \/ lastEvent.type = "keydown" /\ lastEvent.arg = "Escape"

\* C9: with the modal open, a click on the close button, a click on the
\* backdrop itself and a keydown of Escape each leave it closed: display
\* 'none', viewer src '' and body overflow 'auto'.
C9_CloseEventsClose ==
    (CloseEvent /\ before.wasOpen)
        => (display = "none" /\ viewerSrc = "" /\ overflow = "auto")

\* C9 happens: Escape arrived while the modal was open and closed it
C9_Witness ==
    /\ lastEvent.type = "keydown"
    /\ lastEvent.arg = "Escape"
    /\ before.wasOpen
    /\ before.event.type = "pdfButton"
    /\ display = "none"

(***************************************************************************)
(* CLAIMS: INSTITUTION CARDS (checked under CardSpec)                      *)
(***************************************************************************)
\* the project cards of the grid whose floor(top) is within 50 of card's
RowOf(card) ==
    {d \in Cards :
        /\ layout[d].kind = "grid"
        /\ (layout[d].top2 \div 2) - (layout[card].top2 \div 2) \in -50..50}

\* those of them that have both a .modules-content and an .expand-icon i
CompleteRowOf(card) == {d \in RowOf(card) : layout[d].modules /\ layout[d].icon}

\* C10: a header click on a collapsed card of the projects grid expands every
\* complete project card of its row; a header click on an expanded card
\* collapses every complete card of its row that is expanded; the project
\* cards outside the row keep their expanded state.
C10_RowSynchronized ==
    [][\A card \in Cards :
         (/\ lastEvent'.type = "headerClick"
          /\ lastEvent'.card = card
          /\ layout[card].kind = "grid")
         => /\ card \notin expanded => CompleteRowOf(card) \subseteq expanded'
            /\ card \in expanded => CompleteRowOf(card) \cap expanded' = {}
            /\ \A d \in Cards \ RowOf(card) :
                 layout[d].kind = "grid" => (d \in expanded' <=> d \in expanded)]_vars

\* C10 happens: the click expanded the clicked card together with a card whose
\* floor(top) is exactly 50 away, and left alone a collapsed card that is
\* outside the clicked card's row although inside that other card's row
C10_Witness ==
    \E card, d, e \in Cards :
        /\ lastEvent.type = "headerClick"
        /\ lastEvent.card = card
        /\ d \in CompleteRowOf(card)
        /\ (layout[d].top2 \div 2) - (layout[card].top2 \div 2) = 50
        /\ {card, d} \subseteq expanded
        /\ layout[e].kind = "grid"
        /\ e \notin RowOf(card)
        /\ e \in RowOf(d)
        /\ layout[e].modules /\ layout[e].icon
        /\ e \notin expanded

(***************************************************************************)
(* CLAIMS: UNCAUGHT ERRORS (checked under ErrorSpec)                       *)
(***************************************************************************)
\* C12: every uncaught error the script raises, one thrown during the
\* initialisation included, is logged by the window error listener.
C12_UncaughtErrorsLogged == thrown => logged

(***************************************************************************)
(* CLAIMS: VIEW STATE (checked under NavSpec)                              *)
(***************************************************************************)
\* the target of the most recent switchToPage: the state it pushed, which is
\* the state of the current history entry
LastTarget == history[histIdx].state

\* C13: at most one page carries 'active'; when a page with the id of the most
\* recent target of switchToPage exists, that page is the active one, and when
\* no element has that id, no page is active.
C13_ViewReflectsLastNavigation ==
    /\ Cardinality(active \cap pages) <= 1
    /\ LastTarget \in pages => active \cap pages = {LastTarget}
    /\ LastTarget \notin elems => active \cap pages = {}

\* C13 happens: after clicks, a popstate event made a page other than the
\* previously shown one the target, and it is the only active page
C13_Witness ==
    /\ lastEvent.type = "back"
    /\ before.event.type = "navClick"
    /\ LastTarget \in pages
    /\ LastTarget # before.event.arg
    /\ before.event.arg \in pages
    /\ active \cap pages = {LastTarget}

(***************************************************************************)
(* CLAIMS: HEADER LISTENERS (checked under HeaderSpec)                     *)
(***************************************************************************)
\* the step is a header click or a keypress on the header of card
OnHeaderOf(card) ==
    /\ lastEvent'.type \in {"headerClick", "keypress"}
    /\ lastEvent'.card = card

\* the step leaves the class, the content and the icon of card d as they were
CardKept(d) ==
    /\ d \in expanded' <=> d \in expanded
    /\ contentDisplay'[d] = contentDisplay[d]
    /\ iconTransform'[d] = iconTransform[d]

C14_TrackingLabels ==
    [][\A card \in Cards :
         (lastEvent'.type = "headerClick" /\ lastEvent'.card = card)
         => \A t \in tracked' :
              /\ (card \notin expanded /\ card \in expanded') => t.action = "expanded"
              /\ (card \in expanded /\ card \notin expanded') => t.action = "collapsed"]_vars

\* C15: the aria-expanded attribute of the header of every card says whether
\* the card carries the class 'expanded'.
C15_AriaMatchesClass ==
    \A c \in Cards : aria[c] = "true" <=> c \in expanded

(***************************************************************************)
(* CLAIMS: PUBLICATION CARDS (checked under PubSpec)                       *)
(***************************************************************************)
\* C16: one click on the PDF button of a publication card that has a data-pdf
\* calls openPdfModal exactly once, whatever the number of project cards.
C16_OneCallPerClick ==
    (lastEvent.type = "publicationPdf" /\ ~Falsy(lastEvent.arg)) => openCalls = 1

(***************************************************************************)
(* CLAIMS: ROWS (checked under ResizeSpec and RowInfoSpec)                 *)
(***************************************************************************)
\* 'same row' partitions the project cards of the grid
RowsPartition ==
    \A c, d \in Cards :
        (layout[c].kind = "grid" /\ d \in RowOf(c)) => RowOf(d) = RowOf(c)

\* every card of the grid has modules content and an expand icon
AllComplete ==
    \A c \in Cards : layout[c].kind = "grid" => CompleteRowOf(c) = RowOf(c)

\* the row of card holds an expanded and a collapsed card
MixedRow(card) ==
    /\ layout[card].kind = "grid"
    /\ RowOf(card) \cap expanded # {}
    /\ RowOf(card) \ expanded # {}

\* while the layout is the one of the load, partitions the cards and has only
\* complete cards, no row is mixed
FixedLayoutRowsUniform ==
    (~resized /\ RowsPartition /\ AllComplete) => \A c \in Cards : ~MixedRow(c)

\* a click or keypress on a card of a mixed row gives every card of the row the
\* state opposite to the one the card had: the states the others had are lost
MixedRowOverwritten ==
    \A card \in Cards :
        (OnHeaderOf(card) /\ lastEvent'.arg \in {"", "Enter"} /\ MixedRow(card)
           /\ AllComplete)
        => /\ card \in expanded => RowOf(card) \cap expanded' = {}
           /\ card \notin expanded => RowOf(card) \subseteq expanded'
           /\ expanded' \cap RowOf(card) # expanded \cap RowOf(card)

\* C17: with a fixed layout in which 'same row' partitions the grid and every
\* card is complete, all cards of a row have the same expanded state after any
\* header clicks and keypresses from all-collapsed; after a resize a row may be
\* mixed, and a later click in a mixed row overwrites the states of its cards.
C17_RowsUniformUntilResize ==
    [][FixedLayoutRowsUniform' /\ MixedRowOverwritten]_vars

\* C17 happens: a resize left a layout that partitions the cards and in which
\* a row holds an expanded and a collapsed card
C17_Witness ==
    /\ lastEvent.type = "resize"
    /\ RowsPartition
    /\ \E c \in Cards : MixedRow(c)

\* C18: getRowInfo returns rows that partition the project cards of the grid:
\* the index of every card is in the cardIndices of exactly one returned row.
C18_RowInfoPartitions ==
    lastEvent.type = "getRowInfo"
    => \A c \in allProjectCards :
         Cardinality({k \in 1..Len(rowInfo) : indexOf(c) \in rowInfo[k].cardIndices}) = 1

(***************************************************************************)
(* CLAIMS: ANIMATIONS (checked under AnimSpec)                             *)
(***************************************************************************)
\* C19: once every scheduled callback has run, no module item and no action
\* button is left at the opacity '0' an animation reset it to.
C19_NothingLeftHidden ==
    timers = EmptyBag => \A c \in Cards : \A i \in Items : opacity[c][i] # "0"

\* C19 happens: the last pending callback has run, and the items of a clicked
\* card of the grid, of the other card of its row and of a card outside the
\* grid were all animated and are shown
C19_Witness ==
    /\ lastEvent.type = "timer"
    /\ timers = EmptyBag
    /\ opacity[1]["module-item"] = "1"
    /\ opacity[1]["action-button"] = "1"
    /\ opacity[2]["module-item"] = "1"
    /\ opacity[3]["module-item"] = "1"

====
